---- MODULE Spec2Model ----
(***************************************************************************)
(* box_note_to_xhtml.py: a Box note (a JSON tree) is parsed into an Ast    *)
(* and printed as XHTML-like text, one input file after the other.         *)
(*                                                                         *)
(* A JSON object is a record whose DOMAIN is the set of keys present, so   *)
(* d['k'] raises KeyError exactly when "k" \notin DOMAIN d.  A JSON array  *)
(* is a sequence.  An Ast object is a record whose field `node` is the     *)
(* class name.  A function that may raise returns [ok |-> TRUE, val |-> v] *)
(* or [ok |-> FALSE, exc |-> "KeyError", key |-> k].                       *)
(***************************************************************************)
EXTENDS Integers, Sequences, FiniteSets, TLC

VARIABLES note, fs, idx, pc, d, p, outfn, writes, opened, exc

vars == <<note, fs, idx, pc, d, p, outfn, writes, opened, exc>>

(***************************************************************************)
(* Bounds of the input space.                                              *)
(***************************************************************************)
MaxFiles == 2    \* input paths on the command line
MaxKids  == 2    \* entries of a generated `content` array
MaxMarks == 2    \* entries of a generated `marks` array

\* The sequences over S of length 0..n.
SeqsUpTo(S, n) == UNION {[1..k -> S] : k \in 0..n}

Range(s) == {s[i] : i \in DOMAIN s}

(***************************************************************************)
(* Results of functions that may raise.                                    *)
(***************************************************************************)
Ok(v) == [ok |-> TRUE, val |-> v]
KeyError(k) == [ok |-> FALSE, exc |-> "KeyError", key |-> k]

(***************************************************************************)
(* The Ast classes (their constructors).  Unknown.__init__ also prints a   *)
(* warning on standard output, which is no part of the state.              *)
(***************************************************************************)
Top(cs) == [node |-> "Top", content |-> cs]
Text(s) == [node |-> "Text", text |-> s]
Paragraph(cs) == [node |-> "Paragraph", content |-> cs]
Heading(level, cs) == [node |-> "Heading", level |-> level, content |-> cs]
\* variant: every child is turned into a list item holding the child's children
List_flat(cs) ==
    [node |-> "List",
     content |-> [i \in DOMAIN cs |->
                    [node |-> "List_item",
                     content |-> IF "content" \in DOMAIN cs[i] THEN cs[i].content ELSE <<>>]]]
List(cs) == [node |-> "List", content |-> cs]
List_item(cs) == [node |-> "List_item", content |-> cs]
Hard_break == [node |-> "Hard_break"]
Unknown(dict) == [node |-> "Unknown", dict |-> dict]
Href(url, cs) == [node |-> "Href", url |-> url, content |-> cs]
Image(url) == [node |-> "Image", url |-> url]
Blockquote(cs) == [node |-> "Blockquote", content |-> cs]

(***************************************************************************)
(* parse_marks: the loop over the marks, left to right.                    *)
(***************************************************************************)
RECURSIVE parse_marks(_, _)

\* variant: the first link mark becomes the outermost wrapper
parse_marks_outer_first(marks, a) ==
    IF marks = <<>> THEN Ok(a)
    ELSE LET m == Head(marks)
             r == parse_marks(Tail(marks), a)
         IN IF "type" \notin DOMAIN m THEN KeyError("type")
            ELSE IF m.type = "link"
                 THEN IF "attrs" \notin DOMAIN m THEN KeyError("attrs")
                      ELSE IF "href" \notin DOMAIN m.attrs THEN KeyError("href")
                      ELSE IF r.ok THEN Ok(Href(m.attrs.href, <<r.val>>)) ELSE r
                 ELSE r

parse_marks(marks, a) ==
    IF marks = <<>> THEN Ok(a)
    ELSE LET m == Head(marks) IN
         IF "type" \notin DOMAIN m THEN KeyError("type")
         ELSE IF m.type = "link"
              THEN IF "attrs" \notin DOMAIN m THEN KeyError("attrs")
                   ELSE IF "href" \notin DOMAIN m.attrs THEN KeyError("href")
                   ELSE parse_marks(Tail(marks), Href(m.attrs.href, <<a>>))
              ELSE parse_marks(Tail(marks), a)

(***************************************************************************)
(* parse_image                                                             *)
(***************************************************************************)
\* variant: a node without `attrs` degrades to Unknown
parse_image_lenient(o) ==
    IF "attrs" \notin DOMAIN o THEN Ok(Unknown(o))
    ELSE IF "boxSharedLink" \notin DOMAIN o.attrs THEN Ok(Unknown(o))
    ELSE Ok(Image(o.attrs.boxSharedLink))

parse_image(o) ==
    IF "attrs" \notin DOMAIN o THEN KeyError("attrs")
    ELSE IF "boxSharedLink" \notin DOMAIN o.attrs THEN Ok(Unknown(o))
    ELSE Ok(Image(o.attrs.boxSharedLink))

(***************************************************************************)
(* parse_doc and parse_content (mutually recursive).  parse_list is the    *)
(* list comprehension of parse_content: the first element that raises      *)
(* ends it.                                                                *)
(***************************************************************************)
RECURSIVE parse_doc(_), parse_list(_)

parse_content(o) ==
    IF "content" \in DOMAIN o THEN parse_list(o.content) ELSE Ok(<<>>)

parse_list(es) ==
    IF es = <<>> THEN Ok(<<>>)
    ELSE LET h == parse_doc(Head(es)) IN
         IF ~h.ok THEN h
         ELSE LET t == parse_list(Tail(es)) IN
              IF ~t.ok THEN t ELSE Ok(<<h.val>> \o t.val)

parse_doc(o) ==
    IF "type" \notin DOMAIN o THEN KeyError("type")
    ELSE CASE o.type = "doc" ->
                LET c == parse_content(o) IN IF c.ok THEN Ok(Top(c.val)) ELSE c
           [] o.type = "text" ->
                IF "text" \notin DOMAIN o THEN KeyError("text")
                ELSE IF "marks" \in DOMAIN o
                     THEN parse_marks(o.marks, Text(o.text))
                     ELSE Ok(Text(o.text))
           [] o.type = "heading" ->
                IF "attrs" \notin DOMAIN o THEN KeyError("attrs")
                ELSE IF "level" \notin DOMAIN o.attrs THEN KeyError("level")
                ELSE LET c == parse_content(o) IN
                     IF c.ok THEN Ok(Heading(o.attrs.level, c.val)) ELSE c
           [] o.type = "paragraph" ->
                LET c == parse_content(o) IN IF c.ok THEN Ok(Paragraph(c.val)) ELSE c
           [] o.type = "bullet_list" ->
                LET c == parse_content(o) IN IF c.ok THEN Ok(List(c.val)) ELSE c
           [] o.type = "hard_break" -> Ok(Hard_break)
           [] o.type = "list_item" ->
                LET c == parse_content(o) IN IF c.ok THEN Ok(List_item(c.val)) ELSE c
           [] o.type = "image" -> parse_image(o)
           [] o.type = "blockquote" ->
                LET c == parse_content(o) IN IF c.ok THEN Ok(Blockquote(c.val)) ELSE c
           [] OTHER -> Ok(Unknown(o))

(***************************************************************************)
(* parse_top                                                               *)
(***************************************************************************)
parse_top(o) ==
    IF "version" \notin DOMAIN o THEN KeyError("version")
    ELSE IF "schema_version" \notin DOMAIN o THEN KeyError("schema_version")
    ELSE IF "doc" \notin DOMAIN o THEN KeyError("doc")
    ELSE parse_doc(o.doc)

(***************************************************************************)
(* json.dumps of a node object, as Unknown.print calls it (default         *)
(* separators ", " and ": ").  A dict is dumped in its insertion order,    *)
(* which json.load makes the order of the keys in the file; the documents  *)
(* considered carry their keys in KeyOrder.  The values are typed by key:  *)
(* strings (plain ASCII, dumped between quotes with no escape), integers,  *)
(* objects and arrays of objects.                                          *)
(***************************************************************************)
KeyOrder == <<"type", "text", "marks", "attrs", "href", "level",
              "boxSharedLink", "title", "content">>
StrKeys == {"type", "text", "href", "boxSharedLink", "title"}
IntKeys == {"level"}
ObjKeys == {"attrs"}

RECURSIVE dumps(_), dumps_items(_, _), dumps_array(_)

dumps_value(k, v) ==
    CASE k \in StrKeys -> "\"" \o v \o "\""
      [] k \in IntKeys -> ToString(v)
      [] k \in ObjKeys -> dumps(v)
      [] OTHER -> "[" \o dumps_array(v) \o "]"

dumps_items(o, ks) ==
    IF ks = <<>> THEN ""
    ELSE "\"" \o Head(ks) \o "\": " \o dumps_value(Head(ks), o[Head(ks)])
         \o (IF Tail(ks) = <<>> THEN "" ELSE ", " \o dumps_items(o, Tail(ks)))

dumps_array(vs) ==
    IF vs = <<>> THEN ""
    ELSE dumps(Head(vs))
         \o (IF Tail(vs) = <<>> THEN "" ELSE ", " \o dumps_array(Tail(vs)))

dumps(o) == "{" \o dumps_items(o, SelectSeq(KeyOrder, LAMBDA k : k \in DOMAIN o)) \o "}"

(***************************************************************************)
(* The print methods.  Each yields the sequence of strings the method      *)
(* passes to out.write, in call order.                                     *)
(***************************************************************************)
Paragraph_open == "<p>\n"
\* variant: the standard closing tag
Paragraph_close_std == "</p>\n"
Paragraph_close == "<p/>\n"
Heading_open(level) == "<h" \o ToString(level) \o ">"
Heading_close(level) == "</h" \o ToString(level) \o ">\n"
Href_open(url) == "<a href=\"" \o url \o "\">"
Image_tag(url) == "<img src=\"" \o url \o "\"/>"

\* List_item.print, line 85: the child printed without its own markers
\* (i counts from 1 here, from 0 in the source).
\* variant: every Paragraph child is collapsed, not only the first child
List_item_collapse_any(i, c) == c.node = "Paragraph"
List_item_collapse(i, c) == i = 1 /\ c.node = "Paragraph"

\* variant: only the type tag of the object is written
Unknown_print_tag(a) == <<"<pre>\n", a.dict.type, "\n</pre>\n">>
Unknown_print(a) == <<"<pre>\n", dumps(a.dict), "\n</pre>\n">>

RECURSIVE print(_), prints(_), List_item_children(_, _)

prints(cs) == IF cs = <<>> THEN <<>> ELSE print(Head(cs)) \o prints(Tail(cs))

\* the enumerate loop of List_item.print, from child i on
List_item_children(cs, i) ==
    IF i > Len(cs) THEN <<>>
    ELSE (IF List_item_collapse(i, cs[i]) THEN prints(cs[i].content)
                                          ELSE print(cs[i]))
         \o List_item_children(cs, i + 1)

print(a) ==
    CASE a.node = "Top" -> prints(a.content)
      [] a.node = "Text" -> <<a.text>>
      [] a.node = "Paragraph" ->
            <<Paragraph_open>> \o prints(a.content) \o <<Paragraph_close>>
      [] a.node = "Heading" ->
            <<Heading_open(a.level)>> \o prints(a.content) \o <<Heading_close(a.level)>>
      [] a.node = "List" -> <<"<ul>">> \o prints(a.content) \o <<"</ul>">>
      [] a.node = "List_item" ->
            <<"<li>">> \o List_item_children(a.content, 1) \o <<"</li>">>
      [] a.node = "Hard_break" -> <<"<br/>">>
      [] a.node = "Unknown" -> Unknown_print(a)
      [] a.node = "Href" -> <<Href_open(a.url)>> \o prints(a.content) \o <<"</a>">>
      [] a.node = "Image" -> <<Image_tag(a.url)>>
      [] a.node = "Blockquote" ->
            <<"<blockquote>">> \o prints(a.content) \o <<"</blockquote>">>

\* The text of a file the strings ws were written to.
RECURSIVE Written(_)
Written(ws) == IF ws = <<>> THEN "" ELSE Head(ws) \o Written(Tail(ws))

(***************************************************************************)
(* os.path.splitext on a POSIX path (genericpath._splitext); a path is the *)
(* sequence of its characters.                                             *)
(***************************************************************************)
\* str.rfind: the last index of character ch in s, 0 when there is none
\* (the source counts from 0 and answers -1).
rfind(s, ch) ==
    LET I == {i \in DOMAIN s : s[i] = ch} IN
    IF I = {} THEN 0 ELSE CHOOSE i \in I : \A j \in I : j <= i

\* the body part of splitext(path)
splitext_body(path) ==
    LET sepIndex == rfind(path, "/")
        dotIndex == rfind(path, ".")
    IN IF /\ dotIndex > sepIndex
          /\ \E k \in (sepIndex + 1)..(dotIndex - 1) : path[k] # "."
       THEN SubSeq(path, 1, dotIndex - 1)
       ELSE path

DotHtml == <<".", "h", "t", "m", "l">>

\* lines 218-219: outfn = body + ".html"
OutFn(path) == splitext_body(path) \o DotHtml

(***************************************************************************)
(* The input space: note documents as json.load yields them.               *)
(***************************************************************************)
Node(type, content) == [type |-> type, content |-> content]

TextX == [type |-> "text", text |-> "x"]
TextY == [type |-> "text", text |-> "y"]
TextNoText == [type |-> "text"]
TextMarkup == [type |-> "text", text |-> "<b>&</b>"]
Br == [type |-> "hard_break"]
ImgOk == [type |-> "image", attrs |-> [boxSharedLink |-> "http://e.com/i.png"]]
ImgNoLink == [type |-> "image", attrs |-> [title |-> "t"]]
ImgNoAttrs == [type |-> "image"]
Tbl == [type |-> "table"]
NoType == [text |-> "x"]
HeadingNoAttrs == [type |-> "heading", content |-> <<TextX>>]
HeadingNoLevel == [type |-> "heading", attrs |-> [title |-> "t"], content |-> <<TextX>>]

\* nodes under a node whose `content` the parser does not read
TblNested == Node("table", <<Node("table_row", <<TextX>>)>>)
TblOverNoType == Node("table", <<NoType>>)
BrOverTbl == Node("hard_break", <<Tbl>>)
TextOverTbl == [type |-> "text", text |-> "x", content |-> <<Tbl>>]
ImgOverTbl == [type |-> "image", attrs |-> [boxSharedLink |-> "u"], content |-> <<Tbl>>]
ImgNoLinkOverTbl == [type |-> "image", attrs |-> [title |-> "t"], content |-> <<Tbl>>]
BrOverNoType == Node("hard_break", <<NoType>>)

Leaves == {TextX, TextY, TextNoText, TextMarkup, Br, ImgOk, ImgNoLink, ImgNoAttrs, Tbl, NoType,
           HeadingNoAttrs, HeadingNoLevel, TblNested, TblOverNoType, BrOverTbl,
           TextOverTbl, ImgOverTbl, ImgNoLinkOverTbl, BrOverNoType}

\* marks
LinkE == [type |-> "link", attrs |-> [href |-> "http://e.com"]]
LinkV == [type |-> "link", attrs |-> [href |-> "v"]]
Strong == [type |-> "strong"]
MarkNoType == [attrs |-> [href |-> "v"]]
LinkNoAttrs == [type |-> "link"]
LinkNoHref == [type |-> "link", attrs |-> [title |-> "t"]]
MarkSet == {LinkE, LinkV, Strong, MarkNoType, LinkNoAttrs, LinkNoHref}

MarkedTexts ==
    {[type |-> "text", text |-> "text", marks |-> ms] : ms \in SeqsUpTo(MarkSet, MaxMarks)}
    \cup {[type |-> "text", marks |-> <<LinkE>>]}

\* containers over short content arrays
ContainerTypes == {"doc", "paragraph", "blockquote", "bullet_list", "list_item"}
Kids == {TextX, Br, Tbl, NoType}
Containers ==
    {Node(t, cs) : t \in ContainerTypes, cs \in SeqsUpTo(Kids, MaxKids)}
    \cup {[type |-> t] : t \in ContainerTypes \cup {"heading"}}
    \cup {[type |-> "heading", attrs |-> [level |-> l], content |-> cs] :
             l \in {1, 2, 6}, cs \in SeqsUpTo({TextX, Tbl}, MaxKids)}
    \cup {[type |-> "heading", attrs |-> [level |-> 2], content |-> <<[type |-> "text", text |-> "Title"]>>],
          Node("paragraph", <<[type |-> "text", text |-> "hello"]>>)}

\* list items and lists
ParaX == Node("paragraph", <<TextX>>)
ParaY == Node("paragraph", <<TextY>>)
QuoteX == Node("blockquote", <<TextX>>)
ItemKids == {ParaX, ParaY, QuoteX, TextX}
Items == {Node("list_item", cs) : cs \in SeqsUpTo(ItemKids, MaxKids)}
ListKids == {Node("list_item", <<ParaX>>), Node("list_item", <<QuoteX, ParaY>>), ParaX, Tbl}
Lists == {Node("bullet_list", cs) : cs \in SeqsUpTo(ListKids, MaxKids)}

\* deeper placements of the nodes of interest
Deep == {Node("paragraph", <<n>>) : n \in {BrOverTbl, TblNested, ImgNoAttrs, ImgNoLink, TextNoText}}
        \cup {Node("blockquote", <<Node("paragraph", <<n>>)>>) : n \in {Tbl, NoType, HeadingNoLevel}}
        \cup {Node("list_item", <<Node("paragraph", <<Tbl, TextX>>), Tbl>>)}

Blocks == Leaves \cup MarkedTexts \cup Containers \cup Items \cup Lists \cup Deep

Note(doc) == [version |-> 1, schema_version |-> 1, doc |-> doc]

Docs == {Note(Node("doc", <<b>>)) : b \in Blocks}
        \cup {Note(Node("doc", cs)) : cs \in SeqsUpTo({TextX, TextY, ParaX, Tbl}, MaxKids)}
        \cup {Note(b) : b \in {ParaX, Tbl, NoType, TextX}}
        \cup {[schema_version |-> 1, doc |-> Node("doc", <<TextX>>)],
              [version |-> 1, doc |-> Node("doc", <<TextX>>)],
              [version |-> 1, schema_version |-> 1],
              [version |-> 1, schema_version |-> 1, content |-> <<TextX>>],
              [doc |-> Node("doc", <<TextX>>)]}

\* the documents of a run over several files
FileDocs == {Note(Node("doc", <<ParaX>>)),
             Note(Node("doc", <<Tbl, Node("bullet_list", <<Node("list_item", <<ParaX>>)>>)>>)),
             [version |-> 1, schema_version |-> 1],
             Note(Node("doc", <<ParaX, Node("paragraph", <<NoType>>)>>))}

\* the paths given on the command line
PathAJson == <<"a", ".", "j", "s", "o", "n">>
PathAHtml == <<"a", ".", "h", "t", "m", "l">>
PathATxt == <<"a", ".", "t", "x", "t">>
PathDotB == <<".", "b">>
PathDirC == <<"d", ".", "x", "/", "c">>
Paths == {PathAJson, PathAHtml, PathATxt, PathDotB, PathDirC}
AllPaths == Paths \cup {OutFn(q) : q \in Paths}

(***************************************************************************)
(* The state.  note: opts.note.  fs: the files by path.  idx: the position *)
(* of the for loop in note.  pc: the statement of the loop body to run     *)
(* next.  d, p, outfn: the script's variables.  writes: the strings        *)
(* written to `out` since it was opened.  opened: the paths opened for     *)
(* writing so far, in order.  exc: the exception that ended the run.       *)
(***************************************************************************)
NoFile == [kind |-> "none"]
JsonFile(v) == [kind |-> "json", val |-> v]
TextFile(t) == [kind |-> "text", val |-> t]

None == [exc |-> "none"]

InitVars ==
    /\ idx = 1
    /\ pc = "for"
    /\ d = None
    /\ p = None
    /\ outfn = <<>>
    /\ writes = <<>>
    /\ opened = <<>>
    /\ exc = None

\* a run over up to MaxFiles paths, each absent or holding one of FileDocs
InitRun ==
    \E n \in SeqsUpTo(Paths, MaxFiles) :
      \E f \in [Range(n) -> {NoFile} \cup {JsonFile(v) : v \in FileDocs}] :
        /\ note = n
        /\ fs = [q \in AllPaths |-> IF q \in Range(n) THEN f[q] ELSE NoFile]
        /\ InitVars

\* a run over one path holding any of Docs
InitOne ==
    \E q \in {PathAJson, PathDirC}, v \in Docs :
        /\ note = <<q>>
        /\ fs = [r \in AllPaths |-> IF r = q THEN JsonFile(v) ELSE NoFile]
        /\ InitVars

Init == InitRun \/ InitOne

\* an uncaught exception ends the script
Raise(e) ==
    /\ pc' = "crashed"
    /\ exc' = e

\* line 213-215: the next path, and open(i, 'r')
OpenInput ==
    /\ pc = "for"
    /\ idx <= Len(note)
    /\ IF fs[note[idx]].kind = "none"
       THEN Raise([exc |-> "FileNotFoundError"])
       ELSE pc' = "load" /\ exc' = exc
    /\ UNCHANGED <<note, fs, idx, d, p, outfn, writes, opened>>

\* line 216: d = json.load(file)
Load ==
    /\ pc = "load"
    /\ IF fs[note[idx]].kind = "json"
       THEN d' = fs[note[idx]].val /\ pc' = "parse" /\ exc' = exc
       ELSE d' = d /\ Raise([exc |-> "JSONDecodeError"])
    /\ UNCHANGED <<note, fs, idx, p, outfn, writes, opened>>

\* variant: the output file is opened before the document is parsed
Parse_after_open ==
    /\ pc = "parse"
    /\ LET r == parse_top(d) IN
       IF r.ok
       THEN /\ p' = r.val /\ pc' = "open_out" /\ exc' = exc
            /\ UNCHANGED <<fs, opened>>
       ELSE /\ p' = p /\ Raise([exc |-> r.exc, key |-> r.key])
            /\ fs' = [fs EXCEPT ![OutFn(note[idx])] = TextFile("")]
            /\ opened' = Append(opened, OutFn(note[idx]))
    /\ UNCHANGED <<note, idx, d, outfn, writes>>

\* variant: a document that fails to parse is skipped
Parse_skip ==
    /\ pc = "parse"
    /\ LET r == parse_top(d) IN
       IF r.ok
       THEN p' = r.val /\ pc' = "open_out" /\ idx' = idx
       ELSE p' = p /\ pc' = "for" /\ idx' = idx + 1
    /\ UNCHANGED <<note, fs, d, outfn, writes, opened, exc>>

\* line 217: p = parse_top(d)
Parse ==
    /\ pc = "parse"
    /\ LET r == parse_top(d) IN
       IF r.ok
       THEN p' = r.val /\ pc' = "open_out" /\ exc' = exc
       ELSE p' = p /\ Raise([exc |-> r.exc, key |-> r.key])
    /\ UNCHANGED <<note, fs, idx, d, outfn, writes, opened>>

\* lines 218-220: outfn = body + ".html"; open(outfn, 'w') creates or truncates
OpenOutput ==
    /\ pc = "open_out"
    /\ outfn' = OutFn(note[idx])
    /\ fs' = [fs EXCEPT ![outfn'] = TextFile("")]
    /\ writes' = <<>>
    /\ opened' = Append(opened, outfn')
    /\ pc' = "print"
    /\ UNCHANGED <<note, idx, d, p, exc>>

\* line 221: p.print(out), then both files are closed and the loop goes on
PrintAst ==
    /\ pc = "print"
    /\ writes' = print(p)
    /\ fs' = [fs EXCEPT ![outfn] = TextFile(Written(writes'))]
    /\ idx' = idx + 1
    /\ pc' = "for"
    /\ UNCHANGED <<note, d, p, outfn, opened, exc>>

\* line 213: the loop is over
Exit ==
    /\ pc = "for"
    /\ idx > Len(note)
    /\ pc' = "exit"
    /\ UNCHANGED <<note, fs, idx, d, p, outfn, writes, opened, exc>>

Next == OpenInput \/ Load \/ Parse \/ OpenOutput \/ PrintAst \/ Exit

Spec == Init /\ [][Next]_vars

(***************************************************************************)
(* Properties.                                                             *)
(***************************************************************************)
\* Document idx-1 has just been converted: d, p, outfn and writes are its
\* JSON value, its Ast, its output path and the strings written to it.
Printed == pc \in {"for", "exit"} /\ idx > 1

\* parse_top(d) raised (nothing else in the loop raises KeyError)
ParseFailed == pc = "crashed" /\ exc.exc = "KeyError"

\* parse_top has been called on d
ParseTried == pc \in {"open_out", "print"} \/ Printed \/ ParseFailed

\* the Ast nodes of a tree
RECURSIVE SubAsts(_)
SubAsts(a) ==
    {a} \cup (IF "content" \in DOMAIN a
              THEN UNION {SubAsts(a.content[i]) : i \in DOMAIN a.content}
              ELSE {})

\* The reference rendering of a Node tree, as text.
RECURSIVE Render(_), RenderAll(_)
RenderAll(cs) == IF cs = <<>> THEN "" ELSE Render(Head(cs)) \o RenderAll(Tail(cs))
Render(a) ==
    CASE a.node = "Top" -> RenderAll(a.content)
      [] a.node = "Text" -> a.text
      [] a.node = "Paragraph" -> "<p>\n" \o RenderAll(a.content) \o "<p/>\n"
      [] a.node = "Heading" ->
            "<h" \o ToString(a.level) \o ">" \o RenderAll(a.content)
            \o "</h" \o ToString(a.level) \o ">\n"
      [] a.node = "Hard_break" -> "<br/>"
      [] a.node = "Href" -> "<a href=\"" \o a.url \o "\">" \o RenderAll(a.content) \o "</a>"
      [] a.node = "Image" -> "<img src=\"" \o a.url \o "\"/>"
      [] a.node = "Blockquote" -> "<blockquote>" \o RenderAll(a.content) \o "</blockquote>"
      [] a.node = "List" -> "<ul>" \o RenderAll(a.content) \o "</ul>"
      [] a.node = "List_item" ->
            "<li>"
            \o (IF a.content = <<>> THEN ""
                ELSE (IF Head(a.content).node = "Paragraph"
                      THEN RenderAll(Head(a.content).content)
                      ELSE Render(Head(a.content)))
                     \o RenderAll(Tail(a.content)))
            \o "</li>"
      [] a.node = "Unknown" -> "<pre>\n" \o dumps(a.dict) \o "\n</pre>\n"

\* C1: every ListItem of a converted document is rendered as '<li>', then its
\* first child without its own markers if that child is a Paragraph and
\* normally otherwise, then every later child normally (a later Paragraph
\* keeps '<p>'), then '</li>'; ListItem[Paragraph[TextRun("x")]] is '<li>x</li>'.
C1_ListItemCollapse ==
    Printed =>
      \A n \in SubAsts(p) :
        n.node = "List_item" =>
          /\ Written(print(n)) = Render(n)
          /\ (n = List_item(<<Paragraph(<<Text("x")>>)>>) => Written(print(n)) = "<li>x</li>")
          /\ (n.content # <<>> /\ Head(n.content).node = "Blockquote"
                => print(n)[2] = "<blockquote>")

C1_Witness ==
    /\ Printed
    /\ \E n \in SubAsts(p) :
         /\ n.node = "List_item"
         /\ Len(n.content) = 2
         /\ n.content[1].node = "Paragraph"
         /\ n.content[2].node = "Paragraph"
    /\ fs[outfn] = TextFile("<li>x<p>\ny<p/>\n</li>")

\* C2: the text written to the output file of a converted document is the
\* reference rendering of its Node tree.
C2_RenderReference ==
    Printed =>
      /\ fs[outfn] = TextFile(Render(p))
      /\ (p = Top(<<Text("<b>&</b>")>>) => fs[outfn] = TextFile("<b>&</b>"))
      /\ (p = Top(<<Paragraph(<<Text("hello")>>)>>) => fs[outfn] = TextFile("<p>\nhello<p/>\n"))

C2_Witness ==
    /\ Printed
    /\ p = Top(<<Heading(2, <<Text("Title")>>)>>)
    /\ fs[outfn] = TextFile("<h2>Title</h2>\n")

(***************************************************************************)
(* The JSON side: which nodes of a document the parser visits.             *)
(***************************************************************************)
Recognized == {"doc", "text", "heading", "paragraph", "bullet_list", "hard_break",
               "list_item", "image", "blockquote"}
\* the kinds whose `content` is parsed
Parents == {"doc", "heading", "paragraph", "bullet_list", "list_item", "blockquote"}

HasType(j) == "type" \in DOMAIN j
IsUnrecognized(j) == HasType(j) /\ j.type \notin Recognized
ContentOf(j) == IF "content" \in DOMAIN j THEN j.content ELSE <<>>
IsParent(j) == HasType(j) /\ j.type \in Parents

RECURSIVE Flatten(_)
Flatten(ss) == IF ss = <<>> THEN <<>> ELSE Head(ss) \o Flatten(Tail(ss))

\* every node object below j, at any depth, in document order
RECURSIVE AllNodes(_)
AllNodes(j) ==
    <<j>> \o Flatten([i \in DOMAIN ContentOf(j) |-> AllNodes(ContentOf(j)[i])])

\* the node objects below j that are handed to parse_doc when nothing raises,
\* in document order
RECURSIVE Parsed(_)
Parsed(j) ==
    <<j>> \o (IF IsParent(j)
              THEN Flatten([i \in DOMAIN ContentOf(j) |-> Parsed(ContentOf(j)[i])])
              ELSE <<>>)

\* the pairs <<node object, Ast node>> at the same place of the two trees
RECURSIVE Pairs(_, _)
Pairs(j, a) ==
    {<<j, a>>}
    \cup (IF IsParent(j) /\ "content" \in DOMAIN a /\ Len(a.content) = Len(ContentOf(j))
          THEN UNION {Pairs(ContentOf(j)[i], a.content[i]) : i \in DOMAIN a.content}
          ELSE {})

\* a is subsequence of b
RECURSIVE IsSubseq(_, _)
IsSubseq(a, b) ==
    IF a = <<>> THEN TRUE
    ELSE IF b = <<>> THEN FALSE
    ELSE IF Head(a) = Head(b) THEN IsSubseq(Tail(a), Tail(b))
    ELSE IsSubseq(a, Tail(b))

\* the texts enclosed by the '<pre>' blocks among the written strings
RECURSIVE PreBlocks(_)
PreBlocks(ws) ==
    IF Len(ws) < 3 THEN <<>>
    ELSE IF ws[1] = "<pre>\n" /\ ws[3] = "\n</pre>\n"
         THEN <<ws[2]>> \o PreBlocks(SubSeq(ws, 4, Len(ws)))
         ELSE PreBlocks(Tail(ws))

Dumps(js) == [i \in DOMAIN js |-> dumps(js[i])]

\* the Ast tree a holds Unknown(j) wherever the document holds a parsed node j
\* of unrecognized type, and has the document's shape above it
RECURSIVE UnknownKept(_, _)
UnknownKept(j, a) ==
    IF IsUnrecognized(j) THEN a = Unknown(j)
    ELSE IF IsParent(j)
         THEN /\ "content" \in DOMAIN a
              /\ Len(a.content) = Len(ContentOf(j))
              /\ \A i \in DOMAIN a.content : UnknownKept(ContentOf(j)[i], a.content[i])
         ELSE TRUE

\* what a parsed node object lacks among the keys the parser subscripts
LacksMark(m) ==
    \/ "type" \notin DOMAIN m
    \/ /\ m.type = "link"
       /\ ("attrs" \notin DOMAIN m \/ "href" \notin DOMAIN m.attrs)

Lacks(j) ==
    \/ ~HasType(j)
    \/ /\ j.type = "heading"
       /\ ("attrs" \notin DOMAIN j \/ "level" \notin DOMAIN j.attrs)
    \/ /\ j.type = "text"
       /\ \/ "text" \notin DOMAIN j
          \/ /\ "marks" \in DOMAIN j
             /\ \E i \in DOMAIN j.marks : LacksMark(j.marks[i])
    \/ /\ j.type = "image"
       /\ "attrs" \notin DOMAIN j

TopKeys == {"version", "schema_version", "doc"}

\* C3 as claimed: every node of unrecognized type, at any depth of a converted
\* document, is in the output: a '<pre>' block encloses its dump (the dump of
\* the node itself or of a node object that contains it).
C3_UnknownAnyDepth ==
    Printed =>
      \A i \in DOMAIN AllNodes(d.doc) :
        IsUnrecognized(AllNodes(d.doc)[i]) =>
          \E k \in DOMAIN AllNodes(d.doc) :
            /\ AllNodes(d.doc)[i] \in Range(AllNodes(AllNodes(d.doc)[k]))
            /\ dumps(AllNodes(d.doc)[k]) \in Range(PreBlocks(writes))

\* C3 amended: a node of unrecognized type that the parser visits (all its
\* ancestors are doc, heading, paragraph, bullet_list, list_item or blockquote
\* nodes) becomes Unknown(node) at its place in the tree and its dump is
\* written in a '<pre>' block, in document order; and a KeyError is never
\* raised for such a node.
C3_UnknownParsedKept ==
    /\ (pc \in {"open_out", "print"} \/ Printed) => UnknownKept(d.doc, p)
    /\ Printed =>
         IsSubseq(Dumps(SelectSeq(Parsed(d.doc), IsUnrecognized)), PreBlocks(writes))
    /\ (ParseFailed /\ TopKeys \subseteq DOMAIN d) =>
         \E i \in DOMAIN Parsed(d.doc) :
            ~IsUnrecognized(Parsed(d.doc)[i]) /\ Lacks(Parsed(d.doc)[i])

C3_Witness ==
    /\ Printed
    /\ d.doc = Node("doc", <<Node("list_item", <<Node("paragraph", <<Tbl, TextX>>), Tbl>>)>>)
    /\ fs[outfn] = TextFile("<li><pre>\n{\"type\": \"table\"}\n</pre>\nx<pre>\n{\"type\": \"table\"}\n</pre>\n</li>")

\* C4 as claimed: parse_top raises exactly when version, schema_version or doc
\* is absent, or a node at any depth lacks `type`, or a heading lacks
\* attrs.level.
C4_MissingFieldExactly ==
    ParseTried =>
      (ParseFailed <=>
         \/ ~(TopKeys \subseteq DOMAIN d)
         \/ \E i \in DOMAIN AllNodes(d.doc) :
              LET j == AllNodes(d.doc)[i] IN
              \/ ~HasType(j)
              \/ /\ j.type = "heading"
                 /\ ("attrs" \notin DOMAIN j \/ "level" \notin DOMAIN j.attrs))

\* C4 amended: parse_top raises KeyError exactly when version, schema_version
\* or doc is absent, or a node the parser visits lacks `type`, or is a heading
\* without attrs.level, a text without `text`, a text with a mark without
\* `type` or a link mark without attrs.href, or an image without `attrs`.
\* An absent `content` never raises.
C4_MissingFieldParsed ==
    ParseTried =>
      (ParseFailed <=>
         \/ ~(TopKeys \subseteq DOMAIN d)
         \/ \E i \in DOMAIN Parsed(d.doc) : Lacks(Parsed(d.doc)[i]))

C4_Witness ==
    /\ ParseFailed
    /\ exc.key = "text"
    /\ TopKeys \subseteq DOMAIN d
    /\ \A i \in DOMAIN AllNodes(d.doc) : HasType(AllNodes(d.doc)[i])

\* C5: when parse_top raises for a document, no output file has been opened
\* for it: every file opened for writing belongs to an earlier document, and
\* the files are as the earlier documents left them.
C5_NoOutputOnParseFailure ==
    ParseFailed =>
      /\ Len(opened) = idx - 1
      /\ \A q \in AllPaths : fs[q].kind = "text" => q \in Range(opened)
      /\ \A k \in DOMAIN opened : opened[k] = OutFn(note[k])
      /\ (idx = 1 => \A q \in AllPaths : fs[q].kind # "text")

C5_Witness ==
    /\ ParseFailed
    /\ exc.key = "doc"
    /\ idx = 2
    /\ Len(opened) = 1
    /\ fs[OutFn(note[2])].kind = "none"

\* C6 as claimed: every item of a parsed List is a ListItem.
C6_ItemsAreListItems ==
    (pc \in {"open_out", "print"} \/ Printed) =>
      \A n \in SubAsts(p) :
        n.node = "List" => \A i \in DOMAIN n.content : n.content[i].node = "List_item"

\* C6 amended: a bullet_list parses to a List whose items are its children
\* parsed by parse_doc in order: a child of type list_item is a ListItem
\* holding its parsed content, a child of another type is whatever that type
\* parses to; the List renders as '<ul>', each item's rendering, '</ul>'.
C6_ItemsParsedGenerically ==
    (pc \in {"open_out", "print"} \/ Printed) =>
      \A jn \in Pairs(d.doc, p) :
        LET j == jn[1]
            n == jn[2]
        IN (HasType(j) /\ j.type = "bullet_list") =>
             /\ n.node = "List"
             /\ Len(n.content) = Len(ContentOf(j))
             /\ \A i \in DOMAIN n.content :
                  LET c == ContentOf(j)[i] IN
                  /\ (c.type = "list_item" <=> n.content[i].node = "List_item")
                  /\ (c.type = "list_item" => Ok(n.content[i].content) = parse_content(c))
                  /\ (c.type = "paragraph" => n.content[i].node = "Paragraph")
                  /\ (IsUnrecognized(c) => n.content[i] = Unknown(c))
             /\ Written(print(n)) = "<ul>" \o RenderAll(n.content) \o "</ul>"

C6_Witness ==
    /\ Printed
    /\ d.doc = Node("doc", <<Node("bullet_list", <<Node("list_item", <<ParaX>>), ParaX>>)>>)
    /\ p = Top(<<List(<<List_item(<<Paragraph(<<Text("x")>>)>>), Paragraph(<<Text("x")>>)>>)>>)
    /\ fs[outfn] = TextFile("<ul><li>x</li><p>\nx<p/>\n</ul>")

\* the urls of the nested Links around a node, outermost first, and the node
\* they wrap
RECURSIVE LinkUrls(_), LinkCore(_)
LinkUrls(a) ==
    IF a.node = "Href" /\ Len(a.content) = 1
    THEN <<a.url>> \o LinkUrls(a.content[1]) ELSE <<>>
LinkCore(a) ==
    IF a.node = "Href" /\ Len(a.content) = 1 THEN LinkCore(a.content[1]) ELSE a

Reverse(s) == [i \in DOMAIN s |-> s[Len(s) + 1 - i]]
IsLink(m) == m.type = "link"
Hrefs(ms) == [i \in DOMAIN ms |-> ms[i].attrs.href]

\* C7: a text node with marks parses to the TextRun wrapped in one Link per
\* link mark, in array order from the inside out (the last link mark is the
\* outermost); marks of other types change nothing.
C7_MarkFolding ==
    (pc \in {"open_out", "print"} \/ Printed) =>
      \A jn \in Pairs(d.doc, p) :
        LET j == jn[1]
            n == jn[2]
        IN (HasType(j) /\ j.type = "text" /\ "marks" \in DOMAIN j) =>
             /\ LinkCore(n) = Text(j.text)
             /\ LinkUrls(n) = Reverse(Hrefs(SelectSeq(j.marks, IsLink)))
             /\ (SelectSeq(j.marks, IsLink) = <<>> => n = Text(j.text))
             /\ (j.marks = <<LinkE>> /\ Printed /\ Len(d.doc.content) = 1
                   => fs[outfn] = TextFile("<a href=\"http://e.com\">text</a>"))

C7_Witness ==
    /\ Printed
    /\ p = Top(<<Href("v", <<Href("http://e.com", <<Text("text")>>)>>)>>)
    /\ d.doc.content[1].marks = <<LinkE, LinkV>>

\* C8: parsing an image node never raises: it yields Image(attrs.boxSharedLink)
\* when that key is present and Unknown(node) in every other case, a node
\* without `attrs` included.
C8_ImageNeverFails ==
    (ParseTried /\ TopKeys \subseteq DOMAIN d) =>
      \A i \in DOMAIN Parsed(d.doc) :
        LET j == Parsed(d.doc)[i] IN
        (HasType(j) /\ j.type = "image") =>
          parse_doc(j) = (IF "attrs" \in DOMAIN j /\ "boxSharedLink" \in DOMAIN j.attrs
                          THEN Ok(Image(j.attrs.boxSharedLink))
                          ELSE Ok(Unknown(j)))

\* the file at a path holds a document parse_top accepts
Parses(q) == fs[q].kind = "json" /\ parse_top(fs[q].val).ok

\* C9 as claimed: a document that fails stops only its own conversion: when
\* the run has ended, every input that holds a parseable document has been
\* converted.
C9_FailureIsLocal ==
    (pc = "exit" \/ ParseFailed) => \A k \in DOMAIN note : Parses(note[k]) => k < idx

\* C9 amended: the documents are converted one after the other, each read,
\* parsed and written completely before the next is opened; the first
\* document that cannot be opened, decoded or parsed ends the run, so the
\* documents after it are not converted.
C9_SequentialUntilFailure ==
    /\ Len(opened) = (IF pc = "print" THEN idx ELSE idx - 1)
    /\ \A k \in DOMAIN opened : opened[k] = OutFn(note[k])
    /\ \A k \in DOMAIN opened :
         (k < idx) => fs[opened[k]].kind = "text"
    /\ pc \in {"load", "parse", "open_out"} => fs[note[idx]].kind # "none"
    /\ pc = "crashed" =>
         /\ idx <= Len(note)
         /\ exc # None
         /\ ~ENABLED Next
    /\ pc = "exit" => idx = Len(note) + 1 /\ exc = None

C9_Witness ==
    /\ pc = "crashed"
    /\ exc.exc = "KeyError"
    /\ idx = 1
    /\ Len(note) = 2
    /\ note[1] # note[2]
    /\ Parses(note[2])
    /\ fs[OutFn(note[2])].kind = "none"

\* C10: the output path of an input is no input path of the run, and two
\* different inputs do not share an output path: no file opened for writing
\* is a file the run reads or the output of another input.
C10_NeverOverwritesInput ==
    \A k \in DOMAIN opened :
       /\ opened[k] \notin Range(note)
       /\ \A l \in DOMAIN opened : note[k] # note[l] => opened[k] # opened[l]

====
